---- MODULE Spec2Model ----
(***************************************************************************)
(* A model of the `Add` trait simulation (Add.h), its implementations for  *)
(* Point<T> (Point.h) and the driver (main.cpp).                           *)
(*                                                                         *)
(* Types are records: [c |-> "float"], [c |-> "Point", T |-> t] and        *)
(* [c |-> "Add", Self |-> s, Rhs |-> r, Out |-> o].  A typed value is a    *)
(* record [T |-> type, v |-> value].                                       *)
(*                                                                         *)
(* A float is held as the integer number of 2^-23 units it is worth, so    *)
(* 1.0f is 2^23 and 1.2f (0x3F99999A) is 10066330.  Every float the model  *)
(* uses is such a multiple, and sums are rounded to a 24 bit significand   *)
(* (nearest, ties to even) as binary32 addition does.                      *)
(***************************************************************************)
EXTENDS Integers, Sequences, FiniteSets, TLC

VARIABLES prog, pc, i, sum, s, v_lhs, built_from, local, last, cout, exit_code

vars == <<prog, pc, i, sum, s, v_lhs, built_from, local, last, cout, exit_code>>

(* Largest number of wrappers the client keeps in its vector. *)
MaxVec == 2

(***************************************************************************)
(* Types                                                                   *)
(***************************************************************************)
FloatT == [c |-> "float"]
BoolT == [c |-> "bool"]
UCharT == [c |-> "unsigned char"]
SCharT == [c |-> "signed char"]
IntT == [c |-> "int"]
Dyn == [c |-> "Dyn"]

Point(T) == [c |-> "Point", T |-> T]

AddT(Self, Rhs, Out) == [c |-> "Add", Self |-> Self, Rhs |-> Rhs, Out |-> Out]

DynAdd(Rhs, Out) == AddT(Dyn, Rhs, Out)

PF == Point(FloatT)
PPF == Point(PF)
PUC == Point(UCharT)

IsPoint(T) == T.c = "Point"

std_integral(T) == T.c \in {"bool", "unsigned char", "signed char", "int"}

std_floating_point(T) == T.c = "float"

IsWrapper(T) == T.c = "Add" /\ T.Self = Dyn

(***************************************************************************)
(* Arithmetic of the built-in types                                        *)
(***************************************************************************)
ONE == 2^23

INT_MAX == (2^30 - 1) + 2^30

INT_MIN == (-INT_MAX) - 1

Abs(n) == IF n < 0 THEN -n ELSE n

(* The power of two q with 2^23 * q <= a < 2^24 * q, for a >= 2^24: the   *)
(* spacing of the floats around a, in 2^-23 units.                         *)
RECURSIVE Ulp(_, _)
Ulp(a, q) == IF a \div q < 2 * ONE THEN q ELSE Ulp(a, 2 * q)

(* Round the exact sum n (in 2^-23 units) to the nearest float, ties to    *)
(* the even significand.                                                   *)
RoundToFloat(n) ==
    LET a == Abs(n)
        q == Ulp(a, 1)
        r == a % q
        lo == a - r
        up == IF 2 * r > q THEN TRUE
              ELSE IF 2 * r < q THEN FALSE
              ELSE (lo \div q) % 2 = 1
        m == IF up THEN lo + q ELSE lo
    IN  IF n < 0 THEN -m ELSE m

FloatAdd(a, b) == RoundToFloat(a + b)

(* Conversion of an int to a narrower integral type (modular since C++20), *)
(* and to bool (non-zero is true).                                         *)
ConvertTo(T, n) ==
    CASE T.c = "bool" -> IF n = 0 THEN 0 ELSE 1
      [] T.c = "unsigned char" -> n % 256
      [] T.c = "signed char" -> ((n + 128) % 256) - 128
      [] OTHER -> n

IntOverflows(a, b) ==
    \/ b > 0 /\ a > INT_MAX - b
    \/ b < 0 /\ a < INT_MIN - b

(* The built-in a + b on two operands of the arithmetic type T, before any *)
(* conversion of the result: operands narrower than int are promoted to    *)
(* int.  A signed overflow of int is undefined; ub is what it yields.      *)
BuiltinPlus(T, a, b, ub) ==
    CASE std_floating_point(T) -> FloatAdd(a, b)
      [] T.c = "int" -> IF IntOverflows(a, b) THEN ub ELSE a + b
      [] OTHER -> a + b

(* The type of the built-in a + b. *)
BuiltinPlusType(T) == IF std_floating_point(T) THEN T ELSE IntT

(***************************************************************************)
(* operator<< (std::ostream&, float) with the stream's default settings:   *)
(* %g with six significant digits.                                         *)
(***************************************************************************)
precision == 6

RECURSIVE Pow10(_)
Pow10(k) == IF k = 0 THEN 1 ELSE 10 * Pow10(k - 1)

(* Decimal exponent of a >= 2^23 (a value >= 1): digits of the integer     *)
(* part, less one.                                                         *)
RECURSIVE ExpOfInt(_)
ExpOfInt(ip) == IF ip < 10 THEN 0 ELSE 1 + ExpOfInt(ip \div 10)

(* Decimal exponent of 0 < a < 2^23 (a value below 1). *)
RECURSIVE ExpOfFrac(_)
ExpOfFrac(f) == IF 10 * f >= ONE THEN -1 ELSE ExpOfFrac(10 * f) - 1

DecimalExp(a) == IF a >= ONE THEN ExpOfInt(a \div ONE) ELSE ExpOfFrac(a)

(* The first k decimal digits of the fraction f / 2^23, with what is left: *)
(* <<the digits as a number, the remainder in 2^-23 units>>.               *)
RECURSIVE FracDigits(_, _, _)
FracDigits(f, k, acc) ==
    IF k = 0 THEN <<acc, f>>
    ELSE FracDigits((10 * f) % ONE, k - 1, 10 * acc + (10 * f) \div ONE)

(* The value a / 2^23 times 10^p, rounded to an integer (ties to even);   *)
(* p >= 0, as every value the model can hold is below 256.                 *)
ScaledRound(a, p) ==
    LET ip == a \div ONE
        fd == FracDigits(a % ONE, p, 0)
        d == IF ip = 0 THEN fd[1] ELSE ip * Pow10(p) + fd[1]
        up == IF 2 * fd[2] > ONE THEN TRUE
              ELSE IF 2 * fd[2] < ONE THEN FALSE
              ELSE d % 2 = 1
    IN  IF up THEN d + 1 ELSE d

RECURSIVE StripZeros(_, _)
StripZeros(d, p) ==
    IF p > 0 /\ d % 10 = 0 THEN StripZeros(d \div 10, p - 1) ELSE <<d, p>>

RECURSIVE ZeroPad(_, _)
ZeroPad(n, width) ==
    IF width = 0 THEN ""
    ELSE ZeroPad(n \div 10, width - 1) \o ToString(n % 10)

(* d / 10^p written in fixed notation with p decimals. *)
Fixed(d, p) ==
    IF p = 0 THEN ToString(d)
    ELSE ToString(d \div Pow10(p)) \o "." \o ZeroPad(d % Pow10(p), p)

(* FormatUnsigned as std::fixed would print: six decimals, zeros kept. *)
FormatUnsigned_fixed(a) == Fixed(ScaledRound(a, precision), precision)

FormatUnsigned(a) ==
    LET x0 == DecimalExp(a)
        d0 == ScaledRound(a, precision - 1 - x0)
        carry == d0 = Pow10(precision)
        x == IF carry THEN x0 + 1 ELSE x0
        d == IF carry THEN Pow10(precision - 1) ELSE d0
    IN  IF x < -4 \/ x >= precision
        THEN LET m == StripZeros(d, precision - 1)
             IN  Fixed(m[1], m[2]) \o (IF x < 0 THEN "e-" ELSE "e+")
                   \o ZeroPad(Abs(x), 2)
        ELSE LET q == precision - 1 - x
                 m == StripZeros(d, q)
             IN  Fixed(m[1], m[2])

FormatFloat(n) ==
    IF n = 0 THEN "0"
    ELSE IF n < 0 THEN "-" \o FormatUnsigned(-n)
    ELSE FormatUnsigned(n)

(***************************************************************************)
(* Add.h: the trait, the concept and the choice of a specialization        *)
(***************************************************************************)

(* The members `add` of the class templates: parameter and return type.    *)
(* The primary template declares add(Rhs) -> Out and never defines it.     *)
AddMember(spec, t) ==
    CASE spec = "primary" -> [param |-> t.Rhs, ret |-> t.Out]
      [] spec = "dyn" -> [param |-> t.Rhs, ret |-> t.Out]
      [] spec = "arith" -> [param |-> t.Self, ret |-> t.Self]
      [] spec = "point" -> [param |-> t.Self, ret |-> t.Self]
      [] spec = "point_float_scalar" -> [param |-> FloatT, ret |-> FloatT]

(* Pattern a is more specialized than pattern b: <Point<T>, Point<T>,      *)
(* Point<T>> is an instance of <Self, Self, Self>; <Dyn, Rhs, Out> and     *)
(* <Self, Self, Self> are not ordered.                                     *)
MoreSpecialized(a, b) == a = "point" /\ b = "arith"

RECURSIVE AddTrait(_)
RECURSIVE Matches(_)
RECURSIVE Resolve(_)

(* The partial specializations whose pattern matches Add<Self, Rhs, Out>   *)
(* and whose requires-clause holds.                                        *)
Matches(t) ==
    {spec \in {"dyn", "arith", "point"} :
        CASE spec = "dyn" -> t.Self = Dyn
          [] spec = "arith" -> /\ t.Rhs = t.Self /\ t.Out = t.Self
                               /\ (std_integral(t.Self) \/ std_floating_point(t.Self))
          [] spec = "point" -> /\ IsPoint(t.Self)
                               /\ t.Rhs = t.Self /\ t.Out = t.Self
                               /\ AddTrait(AddT(t.Self.T, t.Self.T, t.Self.T))}

(* Resolve without the explicit specialization of Point.h 57-68. *)
Resolve_no_explicit(t) ==
    LET m == Matches(t)
        best == {a \in m : \A b \in m : ~MoreSpecialized(b, a)}
    IN  IF m = {} THEN "primary"
        ELSE IF Cardinality(best) = 1 THEN CHOOSE a \in best : TRUE
        ELSE "ambiguous"

(* The class the name Add<Self, Rhs, Out> denotes: the explicit            *)
(* specialization if it is that exact triple, else the most specialized    *)
(* matching partial specialization, else the primary template.             *)
Resolve(t) ==
    IF t = AddT(PF, FloatT, FloatT) THEN "point_float_scalar"
    ELSE LET m == Matches(t)
             best == {a \in m : \A b \in m : ~MoreSpecialized(b, a)}
         IN  IF m = {} THEN "primary"
             ELSE IF Cardinality(best) = 1 THEN CHOOSE a \in best : TRUE
             ELSE "ambiguous"

(* concept AddTrait: self.add(other) is well formed and has type Out. *)
AddTrait(t) ==
    LET spec == Resolve(t)
    IN  /\ spec # "ambiguous"
        /\ AddMember(spec, t).param = t.Rhs
        /\ AddMember(spec, t).ret = t.Out

(* The specializations whose constructor and add have a definition. *)
Defined(spec) == spec \in {"dyn", "arith", "point", "point_float_scalar"}

(***************************************************************************)
(* Evaluation.  A result is [status, T, v]: status "ok" with the value v   *)
(* of type T, or the way the program fails: "link_error" (undefined        *)
(* reference), "narrowing_error" (rejected brace-initialization) or        *)
(* "stack_overflow" (unbounded recursion at run time).                     *)
(* bld holds what the build leaves open: bld.ub is what a signed overflow  *)
(* of int yields, bld.pedantic whether a narrowing conversion in a         *)
(* brace-initialization is an error (it is ill-formed; g++ only warns).    *)
(***************************************************************************)
TV(T, v) == [T |-> T, v |-> v]

Pt(x, y) == [x |-> x, y |-> y]

Dead == TV([c |-> "void"], 0)

(* A value-initialized T; a wrapper has none, its place is left empty. *)
RECURSIVE Zero(_)
Zero(T) ==
    CASE IsPoint(T) -> Pt(Zero(T.T), Zero(T.T))
      [] T.c = "Add" -> Dead
      [] OTHER -> 0

Ok(T, v) == [status |-> "ok", T |-> T, v |-> v]

(* A failed evaluation has no value; v is a value-initialized T. *)
Fail(status, T) == [status |-> status, T |-> T, v |-> Zero(T)]

(* DynAdd_ctor capturing s after it was moved from: a value-initialized    *)
(* Self in place of the argument.                                          *)
DynAdd_ctor_moved_from(Rhs, Out, tv) ==
    TV(DynAdd(Rhs, Out),
       TV(tv.T, Zero(tv.T)))

(* Add<Dyn, Rhs, Out>::Add(Self s): the wrapper holds the closure, which   *)
(* holds its own copy of s, a value of the type Self it was made from.     *)
DynAdd_ctor(Rhs, Out, tv) == TV(DynAdd(Rhs, Out), TV(tv.T, tv.v))

RECURSIVE Add_add(_, _, _, _)
RECURSIVE PlusExpr(_, _, _)
RECURSIVE Lambda(_, _, _)

(* The closure [s](Rhs rhs) -> Out { return Add<Self,Rhs,Out>(s).add(rhs); } *)
(* of the wrapper w applied to rhs.                                        *)
Lambda(w, rhs, bld) ==
    Add_add(AddT(w.v.T, w.T.Rhs, w.T.Out), w.v, rhs, bld)

(* PointAdd with the axes mixed up: x is summed with the other's y. *)
PointAdd_crossed(Self, self, other, bld) ==
    LET x_sum == PlusExpr(TV(Self.T, self.x), TV(Self.T, other.y), bld)
        y_sum == PlusExpr(TV(Self.T, self.y), TV(Self.T, other.x), bld)
    IN  IF x_sum.status # "ok" THEN Fail(x_sum.status, Self)
        ELSE IF y_sum.status # "ok" THEN Fail(y_sum.status, Self)
        ELSE IF x_sum.T # Self.T /\ bld.pedantic
             THEN Fail("narrowing_error", Self)
        ELSE Ok(Self, [x |-> ConvertTo(Self.T, x_sum.v),
                       y |-> ConvertTo(Self.T, y_sum.v)])

(* Point.h 41-49: both sums by the expression `self.? + other.?`, then     *)
(* Self { .x = x_sum, .y = y_sum }.                                        *)
PointAdd(Self, self, other, bld) ==
    LET x_sum == PlusExpr(TV(Self.T, self.x), TV(Self.T, other.x), bld)
        y_sum == PlusExpr(TV(Self.T, self.y), TV(Self.T, other.y), bld)
    IN  IF x_sum.status # "ok" THEN Fail(x_sum.status, Self)
        ELSE IF y_sum.status # "ok" THEN Fail(y_sum.status, Self)
        ELSE IF x_sum.T # Self.T /\ bld.pedantic
             THEN Fail("narrowing_error", Self)
        ELSE Ok(Self, [x |-> ConvertTo(Self.T, x_sum.v),
                       y |-> ConvertTo(Self.T, y_sum.v)])

(* PointFloatAdd reading the other coordinate. *)
PointFloatAdd_y(self, rhs) == FloatAdd(self.y, rhs)

(* Point.h 63-65 *)
PointFloatAdd(self, rhs) == FloatAdd(self.x, rhs)

(* ArithAdd returning the promoted sum, the conversion to Self left out. *)
ArithAdd_promoted(Self, self, other, bld) ==
    BuiltinPlus(Self, self, other, bld.ub)

(* Add.h 60-62: return self + other, converted to Out = Self. *)
ArithAdd(Self, self, other, bld) ==
    ConvertTo(Self, BuiltinPlus(Self, self, other, bld.ub))

(* Add<Self, Rhs, Out>(lhs).add(rhs) *)
Add_add(t, lhs, rhs, bld) ==
    LET spec == Resolve(t)
    IN  CASE spec = "arith" -> Ok(t.Out, ArithAdd(t.Self, lhs.v, rhs.v, bld))
          [] spec = "point" -> PointAdd(t.Self, lhs.v, rhs.v, bld)
          [] spec = "point_float_scalar" ->
                Ok(FloatT, PointFloatAdd(lhs.v, rhs.v))
          [] spec = "dyn" ->
                IF lhs.T = Dyn THEN Fail("stack_overflow", t.Out)
                ELSE Lambda(DynAdd_ctor(t.Rhs, t.Out, lhs), rhs, bld)
          [] OTHER -> Fail("link_error", t.Out)

(* The operator+ function templates a call lhs + rhs can use.  The generic *)
(* one deduces Self and Rhs and takes Out = Self by default; the dynamic   *)
(* one needs lhs to be an Add<Dyn, Rhs, Out> and rhs to be that Rhs.       *)
Viable(lhs, rhs) ==
    {e \in {"generic", "dynamic"} :
        IF e = "generic" THEN AddTrait(AddT(lhs.T, rhs.T, lhs.T))
        ELSE IsWrapper(lhs.T) /\ lhs.T.Rhs = rhs.T}

(* EntryPoint without the partial ordering: the generic template first. *)
EntryPoint_generic_first(lhs, rhs) ==
    IF "generic" \in Viable(lhs, rhs) THEN "generic"
    ELSE IF "dynamic" \in Viable(lhs, rhs) THEN "dynamic"
    ELSE "none"

(* Overload resolution: the dynamic template is the more specialized. *)
EntryPoint(lhs, rhs) ==
    IF "dynamic" \in Viable(lhs, rhs) THEN "dynamic"
    ELSE IF "generic" \in Viable(lhs, rhs) THEN "generic"
    ELSE "none"

IsArith(T) == std_integral(T) \/ std_floating_point(T)

(* The triple whose implementation the expression lhs + rhs runs. *)
PlusTriple(lhs, rhs) ==
    IF EntryPoint(lhs, rhs) = "dynamic"
    THEN AddT(lhs.v.T, lhs.T.Rhs, lhs.T.Out)
    ELSE AddT(lhs.T, rhs.T, lhs.T)

(* Add.h 68-72: operator+<Self, Rhs, Out>(lhs, rhs) *)
GenericPlus(t, lhs, rhs, bld) == Add_add(t, lhs, rhs, bld)

(* Add.h 75-78: operator+(Add<Dyn, Rhs, Out> lhs, Rhs rhs) *)
DynamicPlus(lhs, rhs, bld) == Lambda(lhs, rhs, bld)

(* The expression lhs + rhs: the built-in operator on two operands of one  *)
(* arithmetic type, else the selected operator+ template.                  *)
PlusExpr(lhs, rhs, bld) ==
    IF IsArith(lhs.T) /\ lhs.T = rhs.T
    THEN Ok(BuiltinPlusType(lhs.T), BuiltinPlus(lhs.T, lhs.v, rhs.v, bld.ub))
    ELSE CASE EntryPoint(lhs, rhs) = "dynamic" -> DynamicPlus(lhs, rhs, bld)
           [] EntryPoint(lhs, rhs) = "generic" ->
                GenericPlus(AddT(lhs.T, rhs.T, lhs.T), lhs, rhs, bld)
           [] OTHER -> Fail("no_match", lhs.T)

(***************************************************************************)
(* Values the programs use                                                 *)
(***************************************************************************)
F1_0 == ONE

F2_0 == 2 * ONE

(* 1.2f, the float nearest to 1.2: 0x3F99999A *)
F1_2 == ONE + 1677722

(* 1.00000012f, the float after 1.0f *)
F1_0next == ONE + 1

RECURSIVE Vals(_)
Vals(T) ==
    CASE T = FloatT -> {F1_0, F1_2, F1_0next, F2_0}
      [] T = BoolT -> {0, 1}
      [] T = UCharT -> {1, 200, 255}
      [] T = SCharT -> {1, 127, -128}
      [] T = IntT -> {1, -1, INT_MAX, INT_MIN}
      [] T = Dyn -> {0}
      [] T = PF -> {Pt(x, y) : x \in {F1_0, F1_2}, y \in {F1_0, F2_0}}
      [] T = PUC -> {Pt(x, y) : x, y \in {1, 200}}
      [] T = PPF -> {Pt(p, q) : p, q \in {Pt(F1_0, F1_0), Pt(F1_2, F2_0)}}

StaticTypes == {FloatT, BoolT, UCharT, SCharT, IntT, Dyn, PF, PUC, PPF}

(* What a build may do where the language leaves it open. *)
Builds == [ub : {INT_MIN, 0}, pedantic : BOOLEAN]

(* The operands the wrapper programs use. *)
DynVals(T) ==
    CASE T = FloatT -> {F1_0, F1_2}
      [] T = PF -> {Pt(F1_0, F1_0), Pt(F1_0, F2_0), Pt(F1_2, F1_0)}

DynTypes == {FloatT, PF}

NoOp ==
    [op |-> "none", t |-> AddT(FloatT, FloatT, FloatT), entry |-> "none",
     lhs |-> Dead, from |-> Dead, rhs |-> Dead, res |-> Fail("none", FloatT)]

(* main.cpp 9, 10, 16 and the literal of line 19 *)
a == TV(PF, Pt(F1_0, F1_0))

b == TV(PF, Pt(F2_0, F2_0))

floating_point == TV(FloatT, F1_2)

main_rhs == TV(FloatT, F1_2)

(***************************************************************************)
(* Initial states: the driver main.cpp, or a client of the library that    *)
(* applies the implementations to an operand ("static") or keeps a vector  *)
(* of wrappers ("dyn").                                                    *)
(***************************************************************************)
Init ==
    /\ prog \in {"main", "static", "dyn"}
    /\ pc = IF prog = "main" THEN "L9" ELSE "client"
    /\ i = 0
    /\ sum = Pt(0, 0)
    /\ s = 0
    /\ v_lhs = <<>>
    /\ built_from = <<>>
    /\ CASE prog = "main" -> local = Dead
         [] prog = "static" -> \E T \in StaticTypes : \E v \in Vals(T) :
                                  local = TV(T, v)
         [] prog = "dyn" -> \E T \in DynTypes : \E v \in DynVals(T) :
                               local = TV(T, v)
    /\ last = NoOp
    /\ cout = <<>>
    /\ exit_code = -1

(***************************************************************************)
(* main.cpp                                                                *)
(***************************************************************************)

(* lines 9-11: auto sum = a + b *)
main_sum ==
    /\ prog = "main" /\ pc = "L9"
    /\ \E bld \in Builds :
          LET r == PlusExpr(a, b, bld)
          IN  /\ sum' = r.v
              /\ last' = [op |-> "plus", t |-> PlusTriple(a, b),
                          entry |-> EntryPoint(a, b),
                          lhs |-> a, from |-> a, rhs |-> b, res |-> r]
    /\ pc' = "L12"
    /\ UNCHANGED <<prog, i, s, v_lhs, built_from, local, cout, exit_code>>

(* line 12: std::cout << sum.x << ' ' << sum.y << '\n' *)
main_print_sum ==
    /\ prog = "main" /\ pc = "L12"
    /\ cout' = Append(cout, FormatFloat(sum.x) \o " " \o FormatFloat(sum.y))
    /\ pc' = "L16"
    /\ UNCHANGED <<prog, i, sum, s, v_lhs, built_from, local, last, exit_code>>

(* lines 16-17: v_lhs = { floating_point, a } *)
main_v_lhs ==
    /\ prog = "main" /\ pc = "L16"
    /\ v_lhs' = <<DynAdd_ctor(FloatT, FloatT, floating_point),
                  DynAdd_ctor(FloatT, FloatT, a)>>
    /\ built_from' = <<floating_point, a>>
    /\ i' = 1
    /\ pc' = "L18"
    /\ UNCHANGED <<prog, sum, s, local, last, cout, exit_code>>

(* line 18: the range-for takes the next element, or leaves the loop *)
main_for ==
    /\ prog = "main" /\ pc = "L18"
    /\ pc' = IF i <= Len(v_lhs) THEN "L19" ELSE "L23"
    /\ UNCHANGED <<prog, i, sum, s, v_lhs, built_from, local, last, cout,
                   exit_code>>

(* line 19: auto s = lhs + 1.2f *)
main_s ==
    /\ prog = "main" /\ pc = "L19"
    /\ \E bld \in Builds :
          LET lhs == v_lhs[i]
              r == PlusExpr(lhs, main_rhs, bld)
          IN  /\ s' = r.v
              /\ last' = [op |-> "plus", t |-> PlusTriple(lhs, main_rhs),
                          entry |-> EntryPoint(lhs, main_rhs),
                          lhs |-> lhs, from |-> built_from[i],
                          rhs |-> main_rhs, res |-> r]
    /\ pc' = "L20"
    /\ UNCHANGED <<prog, i, sum, v_lhs, built_from, local, cout, exit_code>>

(* line 20: std::cout << "sum = " << s << '\n' *)
main_print_s ==
    /\ prog = "main" /\ pc = "L20"
    /\ cout' = Append(cout, "sum = " \o FormatFloat(s))
    /\ i' = i + 1
    /\ pc' = "L18"
    /\ UNCHANGED <<prog, sum, s, v_lhs, built_from, local, last, exit_code>>

(* line 23: return 0 *)
main_return ==
    /\ prog = "main" /\ pc = "L23"
    /\ exit_code' = 0
    /\ pc' = "exited"
    /\ UNCHANGED <<prog, i, sum, s, v_lhs, built_from, local, last, cout>>

main ==
    \/ main_sum \/ main_print_sum \/ main_v_lhs \/ main_for
    \/ main_s \/ main_print_s \/ main_return

(***************************************************************************)
(* A client applying the implementations to its operand `local`            *)
(***************************************************************************)
RhsTypes(Self) == {Self, FloatT}

OutTypes(Self) == {Self, FloatT}

(* Add<Self, Rhs, Out>(local).add(rhs) *)
ImplAdd ==
    /\ prog = "static"
    /\ \E Rhs \in RhsTypes(local.T), Out \in OutTypes(local.T), bld \in Builds :
         \E r \in Vals(Rhs) :
            LET t == AddT(local.T, Rhs, Out)
            IN  last' = [op |-> "add", t |-> t, entry |-> Resolve(t),
                         lhs |-> local, from |-> local, rhs |-> TV(Rhs, r),
                         res |-> Add_add(t, local, TV(Rhs, r), bld)]
    /\ UNCHANGED <<prog, pc, i, sum, s, v_lhs, built_from, local, cout,
                   exit_code>>

(* operator+<Self, Rhs, Out>(local, rhs), the template arguments given:    *)
(* the call is rejected unless AddTrait<Self, Rhs, Out> holds.             *)
CallOperatorPlus ==
    /\ prog = "static"
    /\ \E Rhs \in RhsTypes(local.T), Out \in OutTypes(local.T), bld \in Builds :
         \E r \in Vals(Rhs) :
            LET t == AddT(local.T, Rhs, Out)
            IN  last' = [op |-> "operator+", t |-> t, entry |-> "generic",
                         lhs |-> local, from |-> local, rhs |-> TV(Rhs, r),
                         res |-> IF AddTrait(t)
                                 THEN GenericPlus(t, local, TV(Rhs, r), bld)
                                 ELSE Fail("constraint_error", Out)]
    /\ UNCHANGED <<prog, pc, i, sum, s, v_lhs, built_from, local, cout,
                   exit_code>>

(* local + rhs *)
Plus ==
    /\ prog = "static"
    /\ \E Rhs \in RhsTypes(local.T), bld \in Builds :
         \E r \in Vals(Rhs) :
            last' = [op |-> "plus", t |-> PlusTriple(local, TV(Rhs, r)),
                     entry |-> IF IsArith(local.T) /\ local.T = Rhs
                               THEN "builtin"
                               ELSE EntryPoint(local, TV(Rhs, r)),
                     lhs |-> local, from |-> local, rhs |-> TV(Rhs, r),
                     res |-> PlusExpr(local, TV(Rhs, r), bld)]
    /\ UNCHANGED <<prog, pc, i, sum, s, v_lhs, built_from, local, cout,
                   exit_code>>

(***************************************************************************)
(* A client keeping a std::vector<DynAdd<Rhs, Out>> v_lhs of wrappers made *)
(* from its variable `local`.  built_from remembers, for each wrapper, the  *)
(* value it was constructed from; the program does not hold it.            *)
(***************************************************************************)
WrapperTypes == {DynAdd(FloatT, FloatT), DynAdd(PF, PF)}

Erase(seq, k) == SubSeq(seq, 1, k - 1) \o SubSeq(seq, k + 1, Len(seq))

(* local = v, or another variable takes local's place: what wrappers are   *)
(* made from next has another value, perhaps of another type               *)
Assign ==
    /\ prog = "dyn"
    /\ \E T \in DynTypes : \E v \in DynVals(T) : local' = TV(T, v)
    /\ UNCHANGED <<prog, pc, i, sum, s, v_lhs, built_from, last, cout,
                   exit_code>>

(* the original goes out of scope *)
Destroy ==
    /\ prog = "dyn" /\ local # Dead
    /\ local' = Dead
    /\ UNCHANGED <<prog, pc, i, sum, s, v_lhs, built_from, last, cout,
                   exit_code>>

(* v_lhs.push_back(DynAdd<Rhs, Out>(local)) *)
Wrap ==
    /\ prog = "dyn" /\ local # Dead
    /\ Len(v_lhs) < MaxVec
    /\ \E W \in WrapperTypes :
         LET t == AddT(local.T, W.Rhs, W.Out)
         IN  /\ v_lhs # <<>> => v_lhs[1].T = W
             /\ AddTrait(t)
             /\ IF Defined(Resolve(t))
                THEN /\ v_lhs' = Append(v_lhs, DynAdd_ctor(W.Rhs, W.Out, local))
                     /\ built_from' = Append(built_from, local)
                     /\ last' = NoOp
                ELSE /\ last' = [op |-> "wrap", t |-> t, entry |-> Resolve(t),
                                 lhs |-> local, from |-> local, rhs |-> Dead,
                                 res |-> Fail("link_error", W.Out)]
                     /\ UNCHANGED <<v_lhs, built_from>>
    /\ UNCHANGED <<prog, pc, i, sum, s, local, cout, exit_code>>

(* v_lhs.push_back(v_lhs[k]): a copy of a wrapper *)
CopyWrapper ==
    /\ prog = "dyn"
    /\ Len(v_lhs) < MaxVec
    /\ \E k \in DOMAIN v_lhs :
         /\ v_lhs' = Append(v_lhs, v_lhs[k])
         /\ built_from' = Append(built_from, built_from[k])
    /\ UNCHANGED <<prog, pc, i, sum, s, local, last, cout, exit_code>>

(* v_lhs.erase(k): a wrapper is destroyed *)
DestroyWrapper ==
    /\ prog = "dyn"
    /\ \E k \in DOMAIN v_lhs :
         /\ v_lhs' = Erase(v_lhs, k)
         /\ built_from' = Erase(built_from, k)
    /\ UNCHANGED <<prog, pc, i, sum, s, local, last, cout, exit_code>>

(* AfterCall of a mutable lambda that keeps the sum in its captured s. *)
AfterCall_accumulate(w, rhs, bld) ==
    IF w.v.T = w.T.Out
    THEN [w EXCEPT !.v.v = Lambda(w, rhs, bld).v]
    ELSE [w EXCEPT !.v.v.x = Lambda(w, rhs, bld).v]

(* The closure a wrapper holds after its call: the lambda is not mutable   *)
(* and operator+ works on a copy of the wrapper.                           *)
AfterCall(w, rhs, bld) == w

(* v_lhs[k] + rhs *)
DynPlus ==
    /\ prog = "dyn"
    /\ \E k \in DOMAIN v_lhs, bld \in Builds :
         \E r \in DynVals(v_lhs[k].T.Rhs) :
            LET lhs == v_lhs[k]
                rhs == TV(lhs.T.Rhs, r)
            IN  /\ last' = [op |-> "plus", t |-> PlusTriple(lhs, rhs),
                            entry |-> EntryPoint(lhs, rhs),
                            lhs |-> lhs, from |-> built_from[k], rhs |-> rhs,
                            res |-> PlusExpr(lhs, rhs, bld)]
                /\ v_lhs' = [v_lhs EXCEPT ![k] = AfterCall(lhs, rhs, bld)]
    /\ UNCHANGED <<prog, pc, i, sum, s, built_from, local, cout, exit_code>>

(* v_lhs[k].add(rhs) *)
DynCall ==
    /\ prog = "dyn"
    /\ \E k \in DOMAIN v_lhs, bld \in Builds :
         \E r \in DynVals(v_lhs[k].T.Rhs) :
            LET lhs == v_lhs[k]
                rhs == TV(lhs.T.Rhs, r)
            IN  /\ last' = [op |-> "add", t |-> AddT(Dyn, lhs.T.Rhs, lhs.T.Out),
                            entry |-> "dyn",
                            lhs |-> lhs, from |-> built_from[k], rhs |-> rhs,
                            res |-> Lambda(lhs, rhs, bld)]
                /\ v_lhs' = [v_lhs EXCEPT ![k] = AfterCall(lhs, rhs, bld)]
    /\ UNCHANGED <<prog, pc, i, sum, s, built_from, local, cout, exit_code>>

Next ==
    \/ main
    \/ ImplAdd \/ CallOperatorPlus \/ Plus
    \/ Assign \/ Destroy \/ Wrap \/ CopyWrapper \/ DestroyWrapper
    \/ DynPlus \/ DynCall

Spec == Init /\ [][Next]_vars

(* The driver runs to its end: nothing but main.cpp's own steps is needed. *)
LiveSpec == Spec /\ WF_vars(main)

(***************************************************************************)
(* Properties                                                              *)
(***************************************************************************)
SameResult(r1, r2) == r1.status = r2.status /\ r1.T = r2.T /\ r1.v = r2.v

IsPrefix(seq, full) ==
    Len(seq) <= Len(full) /\ seq = SubSeq(full, 1, Len(seq))

ThroughWrapper == last.entry \in {"dynamic", "dyn"}

(* Add<T, T, T>(x).add(y), T's own implementation, under some build *)
OwnAdd(T, x, y, r) ==
    \E bld \in Builds :
        LET own == Add_add(AddT(T, T, T), TV(T, x), TV(T, y), bld)
        IN  own.status = "ok" /\ own.v = r

C2_ScalarAddIgnoresY ==
    (last.op = "add" /\ last.t = AddT(PF, FloatT, FloatT))
    => /\ SameResult(last.res,
                     Ok(FloatT, RoundToFloat(last.lhs.v.x + last.rhs.v)))
       /\ \A y \in Vals(FloatT), bld \in Builds :
            SameResult(Add_add(last.t, TV(PF, Pt(last.lhs.v.x, y)),
                               last.rhs, bld),
                       last.res)

(* The scalar implementation was applied to a point with y different       *)
(* from x.                                                                 *)
C2_Witness ==
    /\ last.op = "add" /\ last.t = AddT(PF, FloatT, FloatT)
    /\ last.res.status = "ok"
    /\ last.lhs.v.y # last.lhs.v.x
    /\ last.res.v # RoundToFloat(last.lhs.v.y + last.rhs.v)

(* C3: a call made through a wrapper, by add or by +, returns what the     *)
(* static Add<V, Rhs, Out>(V).add(rhs) returns for the value V the wrapper *)
(* was constructed from.                                                   *)
C3_DynEqualsStatic ==
    (ThroughWrapper /\ IsWrapper(last.lhs.T))
    => \A bld \in Builds :
          SameResult(last.res,
                     Add_add(AddT(last.from.T, last.lhs.T.Rhs, last.lhs.T.Out),
                             last.from, last.rhs, bld))

(* add was called on a DynAdd<Point<float>, Point<float>> wrapper. *)
C3_Witness ==
    /\ last.op = "add" /\ last.entry = "dyn"
    /\ last.lhs.T = DynAdd(PF, PF) /\ last.from.T = PF
    /\ last.res.status = "ok"

(* C4: in a vector of DynAdd<float, float>, a call on an element built     *)
(* from a float f gives f + rhs and a call on an element built from a      *)
(* Point<float> p gives p.x + rhs, whatever the element's position and     *)
(* whatever else the vector holds.                                         *)
C4_HeterogeneousDispatch ==
    (/\ last.op \in {"add", "plus"}
     /\ IsWrapper(last.lhs.T)
     /\ last.lhs.T = DynAdd(FloatT, FloatT))
    => /\ last.res.status = "ok" /\ last.res.T = FloatT
       /\ last.from.T = FloatT
            => last.res.v = RoundToFloat(last.from.v + last.rhs.v)
       /\ last.from.T = PF
            => last.res.v = RoundToFloat(last.from.v.x + last.rhs.v)

(* The vector holds a wrapped point and then a wrapped float, the reverse  *)
(* of the driver's order, and the float was just called.                   *)
C4_Witness ==
    /\ prog = "dyn" /\ Len(v_lhs) = 2
    /\ built_from[1].T = PF /\ built_from[2].T = FloatT
    /\ last.op = "plus" /\ last.entry = "dynamic"
    /\ last.from = built_from[2]
    /\ last.res.status = "ok"

(* C5: AddTrait holds of a triple exactly when an implementation was       *)
(* provided for it, a use of operator+ or of the wrapper's constructor on  *)
(* a triple without one is rejected by the constraint, and no use ends in  *)
(* a fault at run time.                                                    *)
C5_TraitIffImplemented ==
    last.op \in {"operator+", "plus", "wrap"}
    => /\ AddTrait(last.t) <=> Defined(Resolve(last.t))
       /\ ~Defined(Resolve(last.t)) => last.res.status = "constraint_error"
       /\ last.res.status \notin {"link_error", "stack_overflow"}

(* C6: the driver's output is at every moment a prefix of the three lines  *)
(* "3 3", "sum = 2.4", "sum = 2.2"; it has not exited before all three are *)
(* written; it exits with code 0; and it does exit.                        *)
main_output == <<"3 3", "sum = 2.4", "sum = 2.2">>

C6_DriverOutput ==
    /\ [](prog = "main"
            => /\ IsPrefix(cout, main_output)
               /\ pc = "exited" => cout = main_output /\ exit_code = 0
               /\ pc # "exited" => exit_code = -1)
    /\ (prog = "main") ~> (pc = "exited")

C6_Witness ==
    /\ prog = "main" /\ pc = "exited"
    /\ Len(cout) = 3 /\ cout[2] = "sum = 2.4" /\ exit_code = 0

(* C7 as stated: the primitive add of an unsigned w-bit type, bool         *)
(* included, returns (self + rhs) mod 2^w; bool is taken with its one      *)
(* value bit or with its eight storage bits.                               *)
C7_UnsignedModular ==
    (last.op = "add" /\ last.entry = "arith" /\ last.res.status = "ok")
    => /\ last.t.Self = UCharT
            => last.res.v = (last.lhs.v + last.rhs.v) % 2^8
       /\ last.t.Self = BoolT
            => \E w \in {1, 8} : last.res.v = (last.lhs.v + last.rhs.v) % 2^w

(* C7, amended: the primitive add returns a value of type T: the float sum *)
(* for float; the int sum reduced mod 2^8 into T's range for the 8 bit     *)
(* types; the int sum when it does not overflow for int; and for bool      *)
(* true exactly when self or rhs is true.                                  *)
C7_PrimitiveAdd ==
    (last.op = "add" /\ last.entry = "arith")
    => LET T == last.t.Self
           x == last.lhs.v
           y == last.rhs.v
           r == last.res.v
       IN  /\ last.res.status = "ok" /\ last.res.T = T
           /\ T = FloatT => r = RoundToFloat(x + y)
           /\ T = UCharT => r \in 0..255 /\ r = (x + y) % 2^8
           /\ T = SCharT => r \in -128..127 /\ (r - (x + y)) % 2^8 = 0
           /\ (T = IntT /\ ~IntOverflows(x, y)) => r = x + y
           /\ T = BoolT => r = IF x = 1 \/ y = 1 THEN 1 ELSE 0

(* true + true was computed by Add<bool>. *)
C7_Witness ==
    /\ last.op = "add" /\ last.entry = "arith"
    /\ last.t.Self = BoolT /\ last.lhs.v = 1 /\ last.rhs.v = 1
    /\ last.res.v = 1

(* C8: lhs + rhs with a point on the left returns what an                  *)
(* implemented (Self, Rhs, Out) of its operand types returns, Point<float> *)
(* + float giving the float p.x + rhs; with a wrapper on the left it is    *)
(* the dynamic entry point and returns what the wrapper's add returns.     *)
C8_PlusIsSugar ==
    (last.op = "plus" /\ (IsPoint(last.lhs.T) \/ IsWrapper(last.lhs.T)))
    => IF IsWrapper(last.lhs.T)
       THEN /\ last.entry = "dynamic"
            /\ \A bld \in Builds :
                 SameResult(last.res, Lambda(last.lhs, last.rhs, bld))
       ELSE \A Out \in OutTypes(last.lhs.T), bld \in Builds :
               LET t == AddT(last.lhs.T, last.rhs.T, Out)
               IN  Defined(Resolve(t))
                      => SameResult(last.res,
                                    Add_add(t, last.lhs, last.rhs, bld))

(* C9: in every state, whatever calls, copies, destructions and changes of *)
(* the original came before, add on each live wrapper returns, for every   *)
(* rhs, what the value it was constructed from gives.                      *)
C9_SnapshotStable ==
    \A k \in DOMAIN v_lhs :
       LET w == v_lhs[k]
       IN  \A r \in DynVals(w.T.Rhs), bld \in Builds :
              SameResult(Lambda(w, TV(w.T.Rhs, r), bld),
                         Add_add(AddT(built_from[k].T, w.T.Rhs, w.T.Out),
                                 built_from[k], TV(w.T.Rhs, r), bld))

(* The original was changed or destroyed after the wrapper was made, the   *)
(* wrapper was copied, and it was called after that.                       *)
C9_Witness ==
    /\ prog = "dyn" /\ Len(v_lhs) = 2
    /\ built_from[1] = built_from[2]
    /\ local # built_from[1]
    /\ ThroughWrapper /\ last.from = built_from[1]
    /\ last.res.status = "ok"

(* C10: every triple a program uses resolves to one class: at most one     *)
(* partial specialization matches it, the explicit (Point<float>, float,   *)
(* float) specialization is taken for its triple, a matching partial       *)
(* specialization is taken before the primary template, and the three      *)
(* named triples give p.x + rhs, the component-wise sum and the float sum. *)
C10_Resolution ==
    (last.op \in {"add", "operator+"} /\ prog = "static")
    => LET t == last.t
           m == Matches(t)
           spec == Resolve(t)
       IN  /\ Cardinality(m) <= 1
           /\ spec # "ambiguous"
           /\ (m # {} /\ t # AddT(PF, FloatT, FloatT)) => spec \in m
           /\ spec = "primary" => m = {}
           /\ last.op = "add" => last.entry = spec
           /\ t = AddT(PF, FloatT, FloatT)
                => /\ spec = "point_float_scalar"
                   /\ last.res.v = RoundToFloat(last.lhs.v.x + last.rhs.v)
           /\ t = AddT(PF, PF, PF)
                => /\ spec = "point"
                   /\ last.res.v.x = RoundToFloat(last.lhs.v.x + last.rhs.v.x)
           /\ t = AddT(FloatT, FloatT, FloatT)
                => /\ spec = "arith"
                   /\ last.res.v = RoundToFloat(last.lhs.v + last.rhs.v)

(* The explicit specialization was used through operator+<>. *)
C10_Witness ==
    /\ last.op = "operator+" /\ last.t = AddT(PF, FloatT, FloatT)
    /\ last.res.status = "ok" /\ last.res.T = FloatT
====
